---- MODULE Spec2Model ----
(***************************************************************************)
(* Model of the Lumina astrology engine                                    *)
(* (backend/services/astrology_engine.py).                                 *)
(*                                                                         *)
(* Angles are fixed-point integers: one unit ("tick") is 1/500 of a        *)
(* degree, so the provider's longitudes have a resolution finer than the   *)
(* two decimals the engine rounds to (one hundredth of a degree is 5       *)
(* ticks, and no value lies exactly half way between two hundredths).      *)
(* A value "rounded to 2 decimals" is a multiple of 5 ticks.               *)
(*                                                                         *)
(* The engine keeps no state between calls.  The state of the model is the *)
(* call being served (request), what the external position provider        *)
(* answered during that call (provider) and what the call returned         *)
(* (response).                                                             *)
(*                                                                         *)
(* The routes hand the engine's functions to worker threads                *)
(* (asyncio.to_thread), so calls for different requests run concurrently.  *)
(* For that, threads holds where each worker is in the function it runs,   *)
(* frames the local variables of the running calls, and tables the         *)
(* module-level tables of the engine.                                      *)
(***************************************************************************)
EXTENDS Integers, Sequences, FiniteSets, TLC

VARIABLES request, provider, response, threads, frames, tables,
          clients, callers

vars == <<request, provider, response, threads, frames, tables,
          clients, callers>>

----------------------------------------------------------------------------
(* Units *)

\* ticks per hundredth of a degree (the precision of round(x, 2))
Centi == 5
\* ticks per degree
Deg == 100 * Centi
\* 360 degrees
Full == 360 * Deg
\* 180 degrees
Half == 180 * Deg
\* 30 degrees, the width of a zodiac sign
SignWidth == 30 * Deg

\* float("nan"): a value a float-returning provider can hand back
NaN == 0 - 1000000000

Abs(x) == IF x < 0 THEN 0 - x ELSE x

\* the position of x in seq
Index(seq, x) == CHOOSE i \in 1..Len(seq) : seq[i] = x

\* Python int(x / d) for d > 0: truncation toward zero
TruncDiv(x, d) == IF x >= 0 THEN x \div d ELSE 0 - ((0 - x) \div d)

\* Python round(x, 2) for x >= 0: the nearest hundredth
Round2(x) == ((x + (Centi \div 2)) \div Centi) * Centi

----------------------------------------------------------------------------
(* Constant tables *)

ZODIAC_SIGNS ==
    << "Aries", "Taurus", "Gemini", "Cancer", "Leo", "Virgo",
       "Libra", "Scorpio", "Sagittarius", "Capricorn", "Aquarius", "Pisces" >>

\* the keys of PLANET_IDS, in insertion order
PLANET_IDS ==
    << "Sun", "Moon", "Mercury", "Venus", "Mars", "Jupiter",
       "Saturn", "Uranus", "Neptune", "Pluto", "North Node" >>

PlanetNames == { PLANET_IDS[i] : i \in 1..Len(PLANET_IDS) }

\* the catalog with every orb doubled to 16 degrees, so that the windows of
\* sextile, square and trine overlap
WIDE_ASPECT_DEFINITIONS ==
    << [type |-> "conjunction", angle |-> 0,         orb |-> 16 * Deg],
       [type |-> "opposition",  angle |-> 180 * Deg, orb |-> 16 * Deg],
       [type |-> "trine",       angle |-> 120 * Deg, orb |-> 16 * Deg],
       [type |-> "square",      angle |-> 90 * Deg,  orb |-> 16 * Deg],
       [type |-> "sextile",     angle |-> 60 * Deg,  orb |-> 16 * Deg] >>

ASPECT_DEFINITIONS ==
    << [type |-> "conjunction", angle |-> 0,         orb |-> 8 * Deg],
       [type |-> "opposition",  angle |-> 180 * Deg, orb |-> 8 * Deg],
       [type |-> "trine",       angle |-> 120 * Deg, orb |-> 8 * Deg],
       [type |-> "square",      angle |-> 90 * Deg,  orb |-> 7 * Deg],
       [type |-> "sextile",     angle |-> 60 * Deg,  orb |-> 6 * Deg] >>

MOON_PHASES ==
    << "New Moon", "Waxing Crescent", "First Quarter", "Waxing Gibbous",
       "Full Moon", "Waning Gibbous", "Last Quarter", "Waning Crescent" >>

TRANSIT_ORB == 3 * Deg

----------------------------------------------------------------------------
(* Core functions *)

\* int(nan) raises ValueError
get_zodiac_sign_raises(longitude) == longitude = NaN

get_zodiac_sign(longitude) ==
    ZODIAC_SIGNS[(TruncDiv(longitude, SignWidth) % 12) + 1]

_calculate_planet_position(lon_val, speed) ==
    [ sign            |-> get_zodiac_sign(lon_val),
      degree          |-> Round2(lon_val % SignWidth),
      absolute_degree |-> Round2(lon_val),
      house           |-> 1,
      retrograde      |-> speed < 0 ]

RECURSIVE AssignHouseFrom(_, _, _)
\* the loop of _assign_house from index i (0-based) on; falling out of the
\* loop returns 1
AssignHouseFrom(i, longitude, cusps) ==
    IF i >= 12 THEN 1
    ELSE LET cur == cusps[i + 1]
             nxt == cusps[((i + 1) % 12) + 1]
         IN  IF cur < nxt
             THEN IF cur <= longitude /\ longitude < nxt
                  THEN i + 1
                  ELSE AssignHouseFrom(i + 1, longitude, cusps)
             ELSE IF longitude >= cur \/ longitude < nxt
                  THEN i + 1
                  ELSE AssignHouseFrom(i + 1, longitude, cusps)

\* _assign_house returning the 0-based loop index
_assign_house_zero_based(longitude, cusps) == AssignHouseFrom(0, longitude, cusps) - 1

RECURSIVE AssignHouseDownFrom(_, _, _)
\* the same test with the loop running from index i down to 0
AssignHouseDownFrom(i, longitude, cusps) ==
    IF i < 0 THEN 1
    ELSE LET cur == cusps[i + 1]
             nxt == cusps[((i + 1) % 12) + 1]
         IN  IF cur < nxt
             THEN IF cur <= longitude /\ longitude < nxt
                  THEN i + 1
                  ELSE AssignHouseDownFrom(i - 1, longitude, cusps)
             ELSE IF longitude >= cur \/ longitude < nxt
                  THEN i + 1
                  ELSE AssignHouseDownFrom(i - 1, longitude, cusps)

\* _assign_house returning the last index that passes the test
_assign_house_last_match(longitude, cusps) == AssignHouseDownFrom(11, longitude, cusps)

RECURSIVE FallsThroughWrapAnd(_, _, _)
\* AssignHouseFallsThrough with "and" in place of "or" in the test of the
\* pair that spans the 0/360 boundary
FallsThroughWrapAnd(i, longitude, cusps) ==
    IF i >= 12 THEN TRUE
    ELSE LET cur == cusps[i + 1]
             nxt == cusps[((i + 1) % 12) + 1]
         IN  IF cur < nxt
             THEN IF cur <= longitude /\ longitude < nxt
                  THEN FALSE
                  ELSE FallsThroughWrapAnd(i + 1, longitude, cusps)
             ELSE IF longitude >= cur /\ longitude < nxt
                  THEN FALSE
                  ELSE FallsThroughWrapAnd(i + 1, longitude, cusps)

RECURSIVE AssignHouseFallsThrough(_, _, _)
\* whether the loop of _assign_house, from index i (0-based) on, ends without
\* a return, so that the function leaves by the "return 1" of line 80
AssignHouseFallsThrough(i, longitude, cusps) ==
    IF i >= 12 THEN TRUE
    ELSE LET cur == cusps[i + 1]
             nxt == cusps[((i + 1) % 12) + 1]
         IN  IF cur < nxt
             THEN IF cur <= longitude /\ longitude < nxt
                  THEN FALSE
                  ELSE AssignHouseFallsThrough(i + 1, longitude, cusps)
             ELSE IF longitude >= cur \/ longitude < nxt
                  THEN FALSE
                  ELSE AssignHouseFallsThrough(i + 1, longitude, cusps)

RECURSIVE AssignHouseEndInclusiveFrom(_, _, _)
\* the loop with a house holding its end cusp in place of its start cusp
AssignHouseEndInclusiveFrom(i, longitude, cusps) ==
    IF i >= 12 THEN 1
    ELSE LET cur == cusps[i + 1]
             nxt == cusps[((i + 1) % 12) + 1]
         IN  IF cur < nxt
             THEN IF cur < longitude /\ longitude <= nxt
                  THEN i + 1
                  ELSE AssignHouseEndInclusiveFrom(i + 1, longitude, cusps)
             ELSE IF longitude > cur \/ longitude <= nxt
                  THEN i + 1
                  ELSE AssignHouseEndInclusiveFrom(i + 1, longitude, cusps)

\* _assign_house giving a longitude on a cusp to the house that ends there
_assign_house_end_inclusive(longitude, cusps) ==
    AssignHouseEndInclusiveFrom(0, longitude, cusps)

_assign_house(longitude, cusps) == AssignHouseFrom(0, longitude, cusps)

\* Separation taking the signed difference in place of the absolute one
SeparationSigned(lon1, lon2) ==
    LET angle == lon1 - lon2
    IN  IF angle > Half THEN Full - angle ELSE angle

\* Separation without the reduction of angles above 180
SeparationNoWrap(lon1, lon2) == Abs(lon1 - lon2)

\* lines 92-94 and 260-262: the circular separation of two longitudes
Separation(lon1, lon2) ==
    LET angle == Abs(lon1 - lon2)
    IN  IF angle > Half THEN Full - angle ELSE angle

\* lines 96-105: the aspects of one pair, in catalog order
PairAspects(name1, name2, lon1, lon2) ==
    LET angle == Separation(lon1, lon2)
        hit == SelectSeq(ASPECT_DEFINITIONS,
                         LAMBDA d : Abs(angle - d.angle) <= d.orb)
    IN  [ k \in 1..Len(hit) |->
            [ planet1 |-> name1,
              planet2 |-> name2,
              type    |-> hit[k].type,
              angle   |-> Round2(angle),
              orb     |-> Round2(Abs(angle - hit[k].angle)) ] ]

RECURSIVE AspectsInner(_, _, _, _)
\* the loop over j in range(i + 1, len(planet_names))
AspectsInner(i, j, planet_names, planet_longitudes) ==
    IF j > Len(planet_names) THEN << >>
    ELSE PairAspects(planet_names[i], planet_names[j],
                     planet_longitudes[planet_names[i]],
                     planet_longitudes[planet_names[j]])
         \o AspectsInner(i, j + 1, planet_names, planet_longitudes)

RECURSIVE AspectsOuter(_, _, _)
\* the loop over i in range(len(planet_names))
AspectsOuter(i, planet_names, planet_longitudes) ==
    IF i > Len(planet_names) THEN << >>
    ELSE AspectsInner(i, i + 1, planet_names, planet_longitudes)
         \o AspectsOuter(i + 1, planet_names, planet_longitudes)

\* planet_longitudes is a dict: planet_names is its key order, and
\* planet_longitudes maps each key to its longitude
_calculate_aspects(planet_names, planet_longitudes) ==
    AspectsOuter(1, planet_names, planet_longitudes)

----------------------------------------------------------------------------
(* calculate_birth_chart *)

\* A date or time string is modelled by its fields after split(): a field
\* is the number int() reads from it, or NonNumeric when int() raises.
NonNumeric == 0 - 1

\* lines 129-132: the parse raises when a field that is read is missing
\* (IndexError) or is not a number (ValueError); fields beyond the ones read
\* are ignored
ParseRaises(birth_date, birth_time) ==
    \/ Len(birth_date) < 3
    \/ \E i \in 1..3 : birth_date[i] = NonNumeric
    \/ Len(birth_time) < 2
    \/ \E i \in 1..2 : birth_time[i] = NonNumeric

\* lines 147-150
DefaultPlacement ==
    [ sign |-> "Aries", degree |-> 0, absolute_degree |-> 0,
      house |-> 1, retrograde |-> FALSE ]

\* LookupPlanets with the loop given up at the first lookup that raises: the
\* bodies after it get the default placement too
LookupPlanetsAbortingLoop(prov) ==
    [ name \in PlanetNames |->
        IF \E other \in prov.fail : Index(PLANET_IDS, other) <= Index(PLANET_IDS, name)
        THEN DefaultPlacement
        ELSE _calculate_planet_position(prov.lon[name], prov.speed[name]) ]

\* lines 140-150: the planets dict after the loop over PLANET_IDS.  prov.fail
\* is the set of bodies for which swe.calc_ut raises.
LookupPlanets(prov) ==
    [ name \in PlanetNames |->
        IF name \in prov.fail
        THEN DefaultPlacement
        ELSE _calculate_planet_position(prov.lon[name], prov.speed[name]) ]

\* the keys of planet_longitudes had line 162 not added South Node
LongitudeNamesWithoutSouthNode(prov) ==
    SelectSeq(PLANET_IDS, LAMBDA name : name \notin prov.fail)

\* lines 153-162: the keys of planet_longitudes, in insertion order
LongitudeNames(prov) ==
    SelectSeq(PLANET_IDS, LAMBDA name : name \notin prov.fail)
    \o (IF "North Node" \notin prov.fail THEN << "South Node" >> ELSE << >>)

\* the opposite point without the reduction to one turn
SouthNodeLonNoWrap(north) == north + Half

\* line 154
SouthNodeLon(north) == (north + Half) % Full

\* lines 144 and 154-162: planet_longitudes
Longitudes(prov) ==
    LET planets == LookupPlanets(prov)
    IN  [ name \in { LongitudeNames(prov)[i] : i \in 1..Len(LongitudeNames(prov)) } |->
            IF name = "South Node"
            THEN SouthNodeLon(planets["North Node"].absolute_degree)
            ELSE planets[name].absolute_degree ]

\* lines 153-161: the planets dict with South Node added when North Node
\* was looked up
WithSouthNode(prov) ==
    LET planets == LookupPlanets(prov)
        sn_lon  == SouthNodeLon(planets["North Node"].absolute_degree)
    IN  IF "North Node" \in prov.fail
        THEN planets
        ELSE [ name \in PlanetNames \cup { "South Node" } |->
                 IF name = "South Node"
                 THEN [ sign            |-> get_zodiac_sign(sn_lon),
                        degree          |-> Round2(sn_lon % SignWidth),
                        absolute_degree |-> Round2(sn_lon),
                        house           |-> 1,
                        retrograde      |-> FALSE ]
                 ELSE planets[name] ]

\* lines 175-180
HouseEntry(i, cusp) ==
    [ house           |-> i,
      sign            |-> get_zodiac_sign(cusp),
      degree          |-> Round2(cusp % SignWidth),
      absolute_degree |-> Round2(cusp) ]

\* FallbackHouses with the cusp taken from the 1-based house number
FallbackHousesOffByOne ==
    [ i \in 1..12 |->
        [ house           |-> i,
          sign            |-> ZODIAC_SIGNS[i],
          degree          |-> 0,
          absolute_degree |-> i * SignWidth ] ]

\* lines 188-194: the twelve entries the except branch appends
FallbackHouses ==
    [ i \in 1..12 |->
        [ house           |-> i,
          sign            |-> ZODIAC_SIGNS[i],
          degree          |-> 0,
          absolute_degree |-> (i - 1) * SignWidth ] ]

\* The number of cusps line 174's loop appends before get_zodiac_sign raises
\* on a cusp (all of them when none raises)
CuspsAppended(cusps) ==
    IF \E i \in 1..Len(cusps) : get_zodiac_sign_raises(cusps[i])
    THEN (CHOOSE i \in 1..Len(cusps) :
            /\ get_zodiac_sign_raises(cusps[i])
            /\ \A k \in 1..(i - 1) : ~get_zodiac_sign_raises(cusps[k])) - 1
    ELSE Len(cusps)

\* lines 165-194: houses_data at the end of the try/except.  prov.houses is
\* what swe.houses does: it raises, or returns cusps and ascmc.
HousesData(prov) ==
    LET h == prov.houses
    IN  IF h.raises
        THEN FallbackHouses
        ELSE LET n == CuspsAppended(h.cusps)
                 appended == [ i \in 1..n |-> HouseEntry(i, h.cusps[i]) ]
             IN  IF n < Len(h.cusps)
                 THEN appended \o FallbackHouses
                 ELSE appended

\* lines 183-184 run only when the try block got that far
HousesAssigned(prov) ==
    /\ ~prov.houses.raises
    /\ CuspsAppended(prov.houses.cusps) = Len(prov.houses.cusps)

\* ChartPlanets with the house number stored under the key "degree"
ChartPlanetsHouseAsDegree(prov) ==
    LET planets == WithSouthNode(prov)
        lons    == Longitudes(prov)
    IN  IF HousesAssigned(prov)
        THEN [ name \in DOMAIN planets |->
                 IF name \in DOMAIN lons
                 THEN [ planets[name] EXCEPT
                          !.degree = _assign_house(lons[name], prov.houses.cusps) ]
                 ELSE planets[name] ]
        ELSE planets

\* lines 137-184: the planets dict of the returned chart
ChartPlanets(prov) ==
    LET planets == WithSouthNode(prov)
        lons    == Longitudes(prov)
    IN  IF HousesAssigned(prov)
        THEN [ name \in DOMAIN planets |->
                 IF name \in DOMAIN lons
                 THEN [ planets[name] EXCEPT
                          !.house = _assign_house(lons[name], prov.houses.cusps) ]
                 ELSE planets[name] ]
        ELSE planets

\* lines 166-172: ascendant_lon and mc_lon keep 0.0 when swe.houses raises
AscendantLon(prov) == IF prov.houses.raises THEN 0 ELSE prov.houses.asc

MidheavenLon(prov) == IF prov.houses.raises THEN 0 ELSE prov.houses.mc

\* lines 201-208
ZodiacPosition(lon_val) ==
    [ sign |-> get_zodiac_sign(lon_val), degree |-> Round2(lon_val % SignWidth) ]

\* lines 134-211: the chart returned once the date and time are parsed
BuildChart(prov) ==
    [ planets   |-> ChartPlanets(prov),
      ascendant |-> ZodiacPosition(AscendantLon(prov)),
      midheaven |-> ZodiacPosition(MidheavenLon(prov)),
      houses    |-> HousesData(prov),
      aspects   |-> _calculate_aspects(LongitudeNames(prov), Longitudes(prov)) ]

\* lines 128-215
calculate_birth_chart(birth_date, birth_time, prov) ==
    IF ParseRaises(birth_date, birth_time)
    THEN [ status |-> "ValueError" ]
    ELSE [ status |-> "ok", chart |-> BuildChart(prov) ]

----------------------------------------------------------------------------
(* calculate_current_transits *)

\* line 244
transit_planet_names ==
    << "Mars", "Jupiter", "Saturn", "Uranus", "Neptune", "Pluto" >>

\* lines 239-241
\* MoonPhase on the unsigned distance between the two longitudes
MoonPhaseUnsigned(moon_lon, sun_lon) ==
    LET phase_angle == Abs(moon_lon - sun_lon)
        phase_idx   == TruncDiv(phase_angle, 45 * Deg) % 8
    IN  MOON_PHASES[phase_idx + 1]

MoonPhase(moon_lon, sun_lon) ==
    LET phase_angle == (moon_lon - sun_lon) % Full
        phase_idx   == TruncDiv(phase_angle, 45 * Deg) % 8
    IN  MOON_PHASES[phase_idx + 1]

\* line 259: natal_data.get("absolute_degree", 0)
NatalLon(natal_data) ==
    IF "absolute_degree" \in DOMAIN natal_data
    THEN natal_data.absolute_degree
    ELSE 0

\* TransitPairEntries with each type's natal orb in place of TRANSIT_ORB
TransitPairEntriesNatalOrb(transit_name, transit_lon, natal_name, natal_lon) ==
    LET angle == Separation(transit_lon, natal_lon)
        hit == SelectSeq(ASPECT_DEFINITIONS,
                         LAMBDA d : Abs(angle - d.angle) <= d.orb)
    IN  [ k \in 1..Len(hit) |->
            [ planet       |-> transit_name,
              type         |-> hit[k].type,
              natal_planet |-> natal_name,
              orb          |-> Round2(Abs(angle - hit[k].angle)) ] ]

\* lines 260-272: the entries of one (transit body, natal body) pair
TransitPairEntries(transit_name, transit_lon, natal_name, natal_lon) ==
    LET angle == Separation(transit_lon, natal_lon)
        hit == SelectSeq(ASPECT_DEFINITIONS,
                         LAMBDA d : Abs(angle - d.angle) <= TRANSIT_ORB)
    IN  [ k \in 1..Len(hit) |->
            [ planet       |-> transit_name,
              type         |-> hit[k].type,
              natal_planet |-> natal_name,
              orb          |-> Round2(Abs(angle - hit[k].angle)) ] ]

RECURSIVE TransitsInnerWithSouthNode(_, _, _, _)
\* TransitsInner without the skip of lines 257-258
TransitsInnerWithSouthNode(transit_name, transit_lon, j, natal) ==
    IF j > Len(natal.names) THEN << >>
    ELSE TransitPairEntries(transit_name, transit_lon, natal.names[j],
                            NatalLon(natal.planets[natal.names[j]]))
         \o TransitsInnerWithSouthNode(transit_name, transit_lon, j + 1, natal)

RECURSIVE TransitsInner(_, _, _, _)
\* lines 256-272: the loop over natal_planets.items(), from index j on
TransitsInner(transit_name, transit_lon, j, natal) ==
    IF j > Len(natal.names) THEN << >>
    ELSE LET natal_name == natal.names[j]
         IN  (IF natal_name = "South Node"
              THEN << >>
              ELSE TransitPairEntries(transit_name, transit_lon, natal_name,
                                      NatalLon(natal.planets[natal_name])))
             \o TransitsInner(transit_name, transit_lon, j + 1, natal)

RECURSIVE TransitsOuter(_, _, _)
\* lines 255-272: the loop over current_positions.items(), from index i on
TransitsOuter(i, current_positions, natal) ==
    IF i > Len(transit_planet_names) THEN << >>
    ELSE TransitsInner(transit_planet_names[i],
                       current_positions[transit_planet_names[i]], 1, natal)
         \o TransitsOuter(i + 1, current_positions, natal)

\* lines 252-272: active_transits before the slice
AllTransits(current_positions, natal) ==
    TransitsOuter(1, current_positions, natal)

\* FirstTen taking the slice from the end: active_transits[-10:]
LastTen(active_transits) ==
    SubSeq(active_transits,
           IF Len(active_transits) < 10 THEN 1 ELSE Len(active_transits) - 9,
           Len(active_transits))

\* line 278: active_transits[:10]
FirstTen(active_transits) ==
    SubSeq(active_transits, 1,
           IF Len(active_transits) < 10 THEN Len(active_transits) ELSE 10)

\* lines 218-279.  natal is birth_chart.get("planets", {}): its keys in
\* stored order (names) and its values (planets).  now is the clock reading
\* of line 228.  A provider lookup that raises is not caught here.
calculate_current_transits(natal, now, prov) ==
    IF prov.raises
    THEN [ status |-> "error" ]
    ELSE [ status |-> "ok",
           snapshot |->
             [ date            |-> now,
               moon_sign       |-> get_zodiac_sign(prov.moon),
               moon_phase      |-> MoonPhase(prov.moon, prov.sun),
               active_transits |-> FirstTen(AllTransits(prov.positions, natal)) ] ]


\* line 218: the parameters of calculate_current_transits
TransitParameters == { "birth_chart" }

\* a call of calculate_current_transits passing the given keyword arguments
\* besides the positional birth_chart: a keyword the signature does not
\* have makes Python raise TypeError before the body runs
CallCurrentTransits(keywords, natal, now, prov) ==
    IF keywords \subseteq TransitParameters \ { "birth_chart" }
    THEN calculate_current_transits(natal, now, prov)
    ELSE [ status |-> "TypeError" ]
----------------------------------------------------------------------------
(* Bounded inputs *)

\* number of skies (answers of swe.calc_ut to a birth chart's lookups)
NumSkies == 2
\* at most this many of the eleven lookups of one chart raise; the chart
\* with every lookup raising is included as well
MaxFailed == 2
\* number of birth places; swe.houses returns a well-formed cusp set of its
\* own for each
NumCuspSets == 3
\* swe.houses returns a NaN cusp at a position up to this one (0: none)
MaxBadCusp == 2
\* number of skies at the time of a transit request
NumTransitSkies == 6
\* get_zodiac_sign is called on multiples of 15 degrees up to this many
\* steps either side of 0, and on the values next to them
MaxSignSteps == 30
\* the whole turns added to a longitude
MaxTurns == 2
\* the Moon is placed this many steps of 22.5 degrees ahead of the Sun
MaxMoonSteps == 16
\* number of scrambled cusp lists handed to _assign_house
NumScrambles == 6

\* longitudes of the first sky, in the order of PLANET_IDS
BaseLon ==
    << 29 * Deg + 498, 359 * Deg + 498, 45 * Deg, 90 * Deg + 3,
       120 * Deg, 187 * Deg + 251, 210 * Deg, 275 * Deg + 499,
       300 * Deg, 8 * Deg + 1, 179 * Deg + 498 >>

\* what each body moves from one sky to the next
SkyShift ==
    << 31 * Deg + 7, 13 * Deg + 176, 77 * Deg + 1, 5 * Deg + 499,
       241 * Deg + 250, 3 * Deg + 2, 190 * Deg + 333, 0,
       59 * Deg + 499, 351 * Deg + 497, 180 * Deg + 4 >>

SkyLon(k) ==
    [ name \in PlanetNames |->
        (BaseLon[Index(PLANET_IDS, name)]
           + (k - 1) * SkyShift[Index(PLANET_IDS, name)]) % Full ]

SkySpeed(k) ==
    [ name \in PlanetNames |-> ((Index(PLANET_IDS, name) + k) % 3) - 1 ]

FailSets ==
    { S \in SUBSET PlanetNames : Cardinality(S) <= MaxFailed } \cup { PlanetNames }

\* offsets of the twelve cusps from a regular 30-degree division
CuspWobble ==
    << 0, 0 - 3 * Deg, 0 - 5 * Deg - 2, 4 * Deg, 6 * Deg + 1, 2 * Deg,
       0, 0 - 3 * Deg, 0 - 5 * Deg - 2, 4 * Deg, 6 * Deg + 1, 2 * Deg >>

\* the cusps at birth place k: places 1 and 2 are far apart, place k+2 is
\* so close to place k that the cusps move by one tick only
Cusps(k) ==
    [ i \in 1..12 |->
        (359 * Deg + 498 + ((k - 1) % 2) * (97 * Deg + 151) + ((k - 1) \div 2)
           + (i - 1) * SignWidth + CuspWobble[i]) % Full ]

\* latitude and longitude of birth place k in units of 0.0001 degree: New
\* York, Tokyo, then points 0.0001 degree north of these
Latitude(k) == 407128 - ((k - 1) % 2) * 50366 + ((k - 1) \div 2)

Longitude(k) == 0 - 740060 + ((k - 1) % 2) * 2136563

HousesRaise == [ raises |-> TRUE, cusps |-> << >>, asc |-> 0, mc |-> 0 ]

\* what swe.houses returns for birth place k: the cusps, possibly with a NaN
\* among them
HousesAt(k, bad) ==
    [ raises |-> FALSE,
      cusps  |-> [ i \in 1..12 |-> IF i = bad THEN NaN ELSE Cusps(k)[i] ],
      asc    |-> Cusps(k)[1],
      mc     |-> Cusps(k)[10] ]

\* the outcomes of swe.houses for birth place k: it raises or returns the
\* cusps; for the first place it may also return a NaN cusp
HouseOutcomesAt(k) ==
    { HousesRaise, HousesAt(k, 0) }
    \cup (IF k = 1 THEN { HousesAt(k, bad) : bad \in 1..MaxBadCusp } ELSE { })

HouseOutcomes == UNION { HouseOutcomesAt(k) : k \in 1..NumCuspSets }

ChartProvider(k, fail, h) ==
    [ kind |-> "chart", lon |-> SkyLon(k), speed |-> SkySpeed(k),
      fail |-> fail, houses |-> h ]

\* the (birth_date, birth_time) arguments of a call:
\*   "1990-01-15" "14:30"        "1990-01-15-07" "14:30:15"
\*   "1990-01"    "14:30"        "1990-01-15"    "14"
\*   "not-a-date" "14:30"        "1990-01-15"    "xx:30"
BirthInputs ==
    { << << 1990, 1, 15 >>, << 14, 30 >> >>,
      << << 1990, 1, 15, 7 >>, << 14, 30, 15 >> >>,
      << << 1990, 1 >>, << 14, 30 >> >>,
      << << 1990, 1, 15 >>, << 14 >> >>,
      << << NonNumeric, NonNumeric, NonNumeric >>, << 14, 30 >> >>,
      << << 1990, 1, 15 >>, << NonNumeric, 30 >> >> }

\* the keys of a returned chart's planets dict, in insertion order
ChartPlanetNames(prov) ==
    PLANET_IDS \o (IF "North Node" \notin prov.fail THEN << "South Node" >> ELSE << >>)

NatalOf(prov) == [ names |-> ChartPlanetNames(prov), planets |-> ChartPlanets(prov) ]

\* birth charts handed to calculate_current_transits: no planets at all,
\* the two-planet chart of the tests, a planet without a longitude, and
\* charts calculate_birth_chart returned
NatalInputs ==
    << [ names |-> << >>, planets |-> << >> ],
       [ names   |-> << "Sun", "Moon" >>,
         planets |-> [ name \in { "Sun", "Moon" } |->
                         [ sign |-> IF name = "Sun" THEN "Aries" ELSE "Cancer",
                           absolute_degree |->
                             IF name = "Sun" THEN 15 * Deg ELSE 100 * Deg ] ] ],
       [ names   |-> << "Sun" >>,
         planets |-> [ name \in { "Sun" } |-> [ sign |-> "Aries" ] ] ] >>
    \o [ i \in 1..(3 * NumSkies) |->
           NatalOf(ChartProvider(((i - 1) \div 3) + 1,
                                 CASE i % 3 = 1 -> {}
                                   [] i % 3 = 2 -> { "North Node" }
                                   [] OTHER     -> PlanetNames,
                                 HousesRaise)) ]

\* longitudes of the transit bodies in the first transit sky
TransitBase ==
    << Deg \div 2, 30 * Deg + 100, 50, 200 * Deg, 77 * Deg, 250 * Deg + 250 >>

TransitShift ==
    << 59 * Deg + 450, 88 * Deg, 179 * Deg + 499, 7 * Deg, 301 * Deg + 3, 45 * Deg >>

TransitProvider(k, raises) ==
    [ kind      |-> "transit",
      raises    |-> raises,
      moon      |-> (10 * Deg + (k - 1) * (47 * Deg + 150)) % Full,
      sun       |-> (350 * Deg + (k - 1) * Deg) % Full,
      positions |-> [ name \in { transit_planet_names[i] : i \in 1..6 } |->
                        (TransitBase[Index(transit_planet_names, name)]
                           + (k - 1) * TransitShift[Index(transit_planet_names, name)])
                        % Full ] ]

\* the Moon every 22.5 degrees from the Sun on, on each boundary between
\* two phases or one tick either side of it (asked with the two-planet
\* birth chart; the other birth charts are asked with the sky's own Moon)
MoonLons(sun) ==
    { (sun + m * (22 * Deg + 250) + (m % 3) - 1) % Full : m \in 0..MaxMoonSteps }

SignLons ==
    { d * 15 * Deg + o : d \in (0 - MaxSignSteps)..MaxSignSteps, o \in { 0 - 1, 0, 1 } }

\* every whole degree of the circle, and the values just after and just
\* before it
GridLons == { d * Deg + o : d \in 0..359, o \in { 0, 1, Deg - 1 } }

AnchorLons == { 0, 90 * Deg, 100 * Deg, 359 * Deg + 498 }

\* the key orders of the dicts handed to _calculate_aspects: two bodies, and
\* three with C at 232.5 degrees
AspectMaps == { << "A", "B" >>, << "A", "B", "C" >> }

ThirdLon == 232 * Deg + 250

\* lists of twelve cusps no house system produces: all equal, two values
\* alternating, descending, a well-formed list shuffled, one with a
\* repeated cusp, and one reaching outside [0, 360)
IllFormedCusps ==
    << [ i \in 1..12 |-> 100 * Deg ],
       [ i \in 1..12 |-> IF i % 2 = 1 THEN 10 * Deg ELSE 5 * Deg ],
       [ i \in 1..12 |-> (12 - i) * SignWidth + 7 ],
       [ i \in 1..12 |-> Cusps(1)[((5 * i) % 12) + 1] ],
       [ i \in 1..12 |-> IF i = 4 THEN Cusps(2)[3] ELSE Cusps(2)[i] ],
       [ i \in 1..12 |-> (i - 3) * 45 * Deg ] >>

\* further well-formed lists: twelve equal houses from 0 degrees on (the
\* wrap is between the last cusp and the first), and houses of very
\* different widths with the wrap in the middle of the list
MoreWellFormedCusps ==
    << [ i \in 1..12 |-> (i - 1) * SignWidth ],
       [ i \in 1..12 |->
           (200 * Deg + 3 + (i - 1) * 10 * Deg + (i \div 4) * 80 * Deg) % Full ] >>

\* twelve values in no order: list m has i*i*m*41 + m*17 degrees and i*m
\* ticks, modulo 360 degrees, at position i
ScrambledCusps(m) ==
    [ i \in 1..12 |-> ((i * i * m * 41 + m * 17) * Deg + i * m) % Full ]

\* the cusp lists handed to _assign_house
CuspLists ==
    { Cusps(k) : k \in 1..NumCuspSets }
    \cup { MoreWellFormedCusps[n] : n \in 1..Len(MoreWellFormedCusps) }
    \cup { IllFormedCusps[n] : n \in 1..Len(IllFormedCusps) }
    \cup { ScrambledCusps(m) : m \in 1..NumScrambles }

\* the longitudes a cusp list is asked about: each cusp and the values next
\* to it, every 15 degrees from -30 to 390, and the last value below 360
HouseLons(cusps) ==
    { cusps[i] + o : i \in 1..12, o \in { 0 - 1, 0, 1 } }
    \cup { d * 15 * Deg : d \in (0 - 2)..26 }
    \cup { Full - 1 }

\* the users db.get_user_by_id finds for a briefing: none, somebody else's,
\* and the caller's own with each of the first stored birth charts
BriefingUsers ==
    { [ found |-> FALSE, authorized |-> FALSE, birth_chart |-> NatalInputs[1] ],
      [ found |-> TRUE, authorized |-> FALSE, birth_chart |-> NatalInputs[1] ] }
    \cup { [ found |-> TRUE, authorized |-> TRUE, birth_chart |-> NatalInputs[n] ] :
             n \in 1..3 }

\* the date query parameter: absent, malformed, or a day
BriefingDates ==
    { [ given |-> FALSE, valid |-> FALSE, day |-> 0 ],
      [ given |-> TRUE, valid |-> FALSE, day |-> 0 ] }
    \cup { [ given |-> TRUE, valid |-> TRUE, day |-> d ] : d \in 1..NumTransitSkies }

NoProvider == [ kind |-> "none" ]

----------------------------------------------------------------------------
(* The state machine.  The engine is idle until a caller invokes one of   *)
(* its functions; the step computes the call's result; the caller then     *)
(* takes the result and the engine is idle again.                          *)

Idle == [ op |-> "none" ]

\* the worker threads that run engine calls for two concurrent requests
Workers == { 1, 2 }

\* a worker with no call to run
IdleThread ==
    [ pc |-> "idle", call |-> [ kind |-> "none" ], i |-> 0,
      result |-> [ status |-> "none" ] ]

\* the local variables of an engine call before any is assigned
EmptyFrame ==
    [ planets |-> << >>, longitude_names |-> << >>, planet_longitudes |-> << >>,
      houses_data |-> << >>, ascendant_lon |-> 0, mc_lon |-> 0,
      moon_lon |-> 0, sun_lon |-> 0,
      position_names |-> << >>, current_positions |-> << >> ]

\* lines 18-44: the module-level tables
ModuleTables ==
    [ ZODIAC_SIGNS |-> ZODIAC_SIGNS, PLANET_IDS |-> PLANET_IDS,
      ASPECT_DEFINITIONS |-> ASPECT_DEFINITIONS, MOON_PHASES |-> MOON_PHASES,
      TRANSIT_ORB |-> TRANSIT_ORB ]

\* the modules with a lazily created client: database.py (get_db) and
\* ai_service.py (_get_client)
ClientModules == { "database", "ai_service" }

\* threads calling get_db and _get_client
Callers == { 1, 2, 3 }

\* calls one caller makes
MaxCalls == 2

\* the value of _client and _genai_client before the first assignment
NoClient == 0

\* a module's globals after import: the handle is None and the lock free.
\* key is what get_settings() has been seen to hold for gemini_api_key;
\* instances counts the clients constructed, constructions the constructor
\* calls, returned collects what the getter has returned
UnsetClient ==
    [ handle |-> NoClient, lock |-> 0, key |-> "unread",
      constructions |-> 0, instances |-> 0, returned |-> { } ]

IdleCaller == [ pc |-> "idle", module |-> "none", made |-> NoClient, calls |-> 0 ]

Init ==
    /\ request = Idle
    /\ provider = NoProvider
    /\ response = [ status |-> "none" ]
    /\ threads = [ w \in Workers |-> IdleThread ]
    /\ frames = [ w \in Workers |-> EmptyFrame ]
    /\ tables = ModuleTables
    /\ clients = [ m \in ClientModules |-> UnsetClient ]
    /\ callers = [ c \in Callers |-> IdleCaller ]

\* longitudes of the North Node round the circle, on and next to the
\* points where the stored value or its opposite point passes 0, 180 or 360
\* (asked with every lookup succeeding and swe.houses raising; the other
\* charts are asked with the sky's own North Node)
NodeLons ==
    { 0, 2, 3, 90 * Deg, 179 * Deg + 497, 180 * Deg, 180 * Deg + 3,
      270 * Deg + 1, 359 * Deg + 497, 359 * Deg + 498, 359 * Deg + 499 }

CalculateBirthChart ==
    /\ request = Idle
    /\ UNCHANGED << threads, frames, tables, clients, callers >>
    /\ \E args \in BirthInputs :
         \E k \in 1..NumSkies, fail \in FailSets, place \in 1..NumCuspSets :
         \E h \in HouseOutcomesAt(place) :
         \E node \in { SkyLon(k)["North Node"] }
                        \cup (IF fail = { } /\ place = 1 /\ h = HousesRaise
                              THEN NodeLons ELSE { }) :
           LET prov == [ ChartProvider(k, fail, h)
                           EXCEPT !.lon["North Node"] = node ]
               birth_date == args[1]
               birth_time == args[2]
           IN  /\ request' = [ op |-> "calculate_birth_chart",
                               birth_date |-> birth_date,
                               birth_time |-> birth_time,
                               lat |-> Latitude(place),
                               lon |-> Longitude(place) ]
               /\ provider' = IF ParseRaises(birth_date, birth_time)
                              THEN NoProvider
                              ELSE prov
               /\ response' = calculate_birth_chart(birth_date, birth_time, prov)

CalculateCurrentTransits ==
    /\ request = Idle
    /\ UNCHANGED << threads, frames, tables, clients, callers >>
    /\ \E n \in 1..Len(NatalInputs), k \in 1..NumTransitSkies, raises \in BOOLEAN :
       \E moon \in { TransitProvider(k, raises).moon }
                      \cup (IF n = 2 THEN MoonLons(TransitProvider(k, raises).sun)
                                     ELSE { }) :
         LET prov == [ TransitProvider(k, raises) EXCEPT !.moon = moon ]
         IN  /\ request' = [ op |-> "calculate_current_transits",
                             birth_chart |-> NatalInputs[n],
                             now |-> k ]
             /\ provider' = prov
             /\ response' = calculate_current_transits(NatalInputs[n], k, prov)

GetZodiacSign ==
    /\ request = Idle
    /\ UNCHANGED << threads, frames, tables, clients, callers >>
    /\ \E longitude \in SignLons :
         /\ request' = [ op |-> "get_zodiac_sign", longitude |-> longitude ]
         /\ provider' = NoProvider
         /\ response' = [ status |-> "ok", value |-> get_zodiac_sign(longitude) ]

CalculateAspects ==
    /\ request = Idle
    /\ UNCHANGED << threads, frames, tables, clients, callers >>
    /\ \E a \in AnchorLons, b \in GridLons, planet_names \in AspectMaps :
         LET planet_longitudes ==
                 [ name \in { planet_names[i] : i \in 1..Len(planet_names) } |->
                     CASE name = "A" -> a
                       [] name = "B" -> b
                       [] OTHER      -> ThirdLon ]
         IN  /\ request' = [ op |-> "_calculate_aspects",
                             planet_names |-> planet_names,
                             planet_longitudes |-> planet_longitudes ]
             /\ provider' = NoProvider
             /\ response' = [ status |-> "ok",
                              value |-> _calculate_aspects(planet_names, planet_longitudes) ]

\* routes/briefing.py, get_daily_briefing: the user looked up may be
\* missing or belong to somebody else, the date query parameter may be
\* absent, malformed or a day; the transits are then asked of the engine
\* with the keyword argument target_date
GetDailyBriefing ==
    /\ request = Idle
    /\ UNCHANGED << threads, frames, tables, clients, callers >>
    /\ \E user \in BriefingUsers, date \in BriefingDates, k \in 1..NumTransitSkies :
         LET target_date == IF date.given THEN date.day ELSE k
             called == user.found /\ user.authorized
                         /\ (date.given => date.valid)
         IN  /\ request' =
                   IF called
                   THEN [ op |-> "get_daily_briefing", user |-> user, date |-> date,
                          now |-> k, target_date |-> target_date ]
                   ELSE [ op |-> "get_daily_briefing", user |-> user, date |-> date,
                          now |-> k ]
             /\ provider' = NoProvider
             /\ response' =
                   CASE ~ user.found      -> [ status |-> "HTTPException", code |-> 404 ]
                     [] ~ user.authorized -> [ status |-> "HTTPException", code |-> 403 ]
                     [] ~ called          -> [ status |-> "HTTPException", code |-> 400 ]
                     [] OTHER ->
                          CallCurrentTransits({ "target_date" }, user.birth_chart,
                                              target_date, TransitProvider(k, FALSE))

AssignHouse ==
    /\ request = Idle
    /\ UNCHANGED << threads, frames, tables, clients, callers >>
    /\ \E cusps \in CuspLists :
         \E longitude \in HouseLons(cusps) :
           /\ request' = [ op |-> "_assign_house",
                           longitude |-> longitude, cusps |-> cusps ]
           /\ provider' = NoProvider
           /\ response' = [ status |-> "ok",
                            value |-> _assign_house(longitude, cusps),
                            default |-> AssignHouseFallsThrough(0, longitude, cusps) ]

\* the caller takes the result (or the exception)
Return ==
    /\ request # Idle
    /\ UNCHANGED << threads, frames, tables, clients, callers >>
    /\ request' = Idle
    /\ provider' = NoProvider
    /\ response' = [ status |-> "none" ]

Next ==
    \/ CalculateBirthChart
    \/ CalculateCurrentTransits
    \/ GetZodiacSign
    \/ CalculateAspects
    \/ AssignHouse
    \/ GetDailyBriefing
    \/ Return

Spec == Init /\ [][Next]_vars

----------------------------------------------------------------------------
(* Properties *)

ChartReturned ==
    /\ request.op = "calculate_birth_chart"
    /\ response.status = "ok"

\* C1: whatever subset of the eleven lookups raises, calculate_birth_chart
\* returns a chart; each body whose lookup raised has the default placement
\* (Aries, degree 0, absolute_degree 0, house 1, not retrograde), and each
\* other body has the sign, degree, absolute_degree and retrograde it has
\* in the run in which no lookup raises.
C1_FailedLookupsAbsorbed ==
    (request.op = "calculate_birth_chart" /\ provider.kind = "chart") =>
        /\ response.status = "ok"
        /\ \A name \in provider.fail :
             response.chart.planets[name] =
               [ sign |-> "Aries", degree |-> 0, absolute_degree |-> 0,
                 house |-> 1, retrograde |-> FALSE ]
        /\ LET unfailed == calculate_birth_chart(
                                request.birth_date, request.birth_time,
                                [ provider EXCEPT !.fail = {} ])
           IN  \A name \in PlanetNames \ provider.fail :
                 LET got == response.chart.planets[name]
                     ref == unfailed.chart.planets[name]
                 IN  /\ got.sign = ref.sign
                     /\ got.degree = ref.degree
                     /\ got.absolute_degree = ref.absolute_degree
                     /\ got.retrograde = ref.retrograde

\* C1 witness: a chart returned although the Sun and Mars lookups raised,
\* with the Moon, looked up between them, placed away from the default
C1_Witness ==
    /\ ChartReturned
    /\ provider.fail = { "Sun", "Mars" }
    /\ response.chart.planets["Sun"].sign = "Aries"
    /\ response.chart.planets["Moon"].sign = "Pisces"
    /\ response.chart.planets["Moon"].absolute_degree > 0

\* C2: every returned chart has a placement for each of the twelve tracked
\* bodies, South Node included, whatever lookups raised.
C2_TwelveBodies ==
    ChartReturned =>
        DOMAIN response.chart.planets = PlanetNames \cup { "South Node" }

\* C3: when swe.houses raises, house i (0-based) of the returned chart has
\* absolute_degree i*30, degree 0 and the i-th sign, the ascendant and the
\* midheaven are 0 degrees Aries, and every placement has house 1.
C3_HouseFallback ==
    (request.op = "calculate_birth_chart" /\ provider.kind = "chart"
       /\ provider.houses.raises) =>
        /\ response.status = "ok"
        /\ Len(response.chart.houses) = 12
        /\ \A i \in 0..11 :
             /\ response.chart.houses[i + 1].absolute_degree = i * 30 * Deg
             /\ response.chart.houses[i + 1].degree = 0
             /\ response.chart.houses[i + 1].sign = ZODIAC_SIGNS[i + 1]
        /\ response.chart.ascendant = [ sign |-> "Aries", degree |-> 0 ]
        /\ response.chart.midheaven = [ sign |-> "Aries", degree |-> 0 ]
        /\ \A name \in DOMAIN response.chart.planets :
             response.chart.planets[name].house = 1

\* C3 witness: a chart returned after swe.houses raised, with all eleven
\* bodies looked up and South Node derived
C3_Witness ==
    /\ ChartReturned
    /\ provider.houses.raises
    /\ provider.fail = {}
    /\ response.chart.houses[12].sign = "Pisces"
    /\ "South Node" \in DOMAIN response.chart.planets

\* C4: every returned chart has exactly twelve house cusps, numbered
\* 1, 2, ..., 12 in this order, also when the try block around the house
\* lookup raised part way and the fallback ran.
C4_TwelveHouses ==
    ChartReturned =>
        /\ Len(response.chart.houses) = 12
        /\ \A i \in 1..12 : response.chart.houses[i].house = i

\* C5: for two longitudes in [0,360), _calculate_aspects emits an aspect of
\* type T for the pair exactly when the circular separation of the two
\* differs from the angle of T by at most the orb of T, for the catalog
\* conjunction (0, 8), opposition (180, 8), trine (120, 8), square (90, 7),
\* sextile (60, 6); a separation of 45 degrees gives no aspect.
C5_AspectIffWithinOrb ==
    request.op = "_calculate_aspects" =>
        LET names == { request.planet_names[i] : i \in 1..Len(request.planet_names) }
            sep(x, y) ==
                LET a == request.planet_longitudes[x]
                    b == request.planet_longitudes[y]
                    d == IF a >= b THEN a - b ELSE b - a
                IN  IF d > 180 * Deg THEN 360 * Deg - d ELSE d
            catalog == { << "conjunction", 0, 8 >>, << "opposition", 180, 8 >>,
                         << "trine", 120, 8 >>, << "square", 90, 7 >>,
                         << "sextile", 60, 6 >> }
            emitted(x, y, type) ==
                \E k \in 1..Len(response.value) :
                    /\ response.value[k].type = type
                    /\ { response.value[k].planet1, response.value[k].planet2 }
                         = { x, y }
        IN  /\ \A x \in names : \A y \in names \ { x } : \A T \in catalog :
                 emitted(x, y, T[1]) <=>
                    /\ sep(x, y) - T[2] * Deg <= T[3] * Deg
                    /\ T[2] * Deg - sep(x, y) <= T[3] * Deg
            /\ \A k \in 1..Len(response.value) :
                 /\ \E T \in catalog : response.value[k].type = T[1]
                 /\ response.value[k].planet1 \in names
                 /\ response.value[k].planet2 \in names \ { response.value[k].planet1 }
            /\ (names = { "A", "B" } /\ sep("A", "B") = 45 * Deg
                  => response.value = << >>)

\* C5 witness: A at 0 and B at 263 are 97 degrees apart across the 0/360
\* boundary, exactly the orb of 7 away from a square, and the call returned
\* that square alone
C5_Witness ==
    /\ request.op = "_calculate_aspects"
    /\ request.planet_names = << "A", "B" >>
    /\ request.planet_longitudes["A"] = 0
    /\ request.planet_longitudes["B"] = 263 * Deg
    /\ Len(response.value) = 1
    /\ response.value[1].type = "square"
    /\ response.value[1].angle = 97 * Deg
    /\ response.value[1].orb = 7 * Deg

\* the matches of a transit request, as (transit body, natal body, aspect
\* type) index triples
TransitMatches ==
    LET natal == request.birth_chart
    IN  { m \in (1..6) \X (1..Len(natal.names)) \X (1..5) :
            /\ natal.names[m[2]] # "South Node"
            /\ Abs(Separation(provider.positions[transit_planet_names[m[1]]],
                              NatalLon(natal.planets[natal.names[m[2]]]))
                   - ASPECT_DEFINITIONS[m[3]].angle) <= 3 * Deg }

\* generation order: transit bodies, then natal bodies, then aspect types
GeneratedBefore(m, n) ==
    \/ m[1] < n[1]
    \/ m[1] = n[1] /\ m[2] < n[2]
    \/ m[1] = n[1] /\ m[2] = n[2] /\ m[3] < n[3]

TransitDeviation(m) ==
    Abs(Separation(provider.positions[transit_planet_names[m[1]]],
                   NatalLon(request.birth_chart.planets[request.birth_chart.names[m[2]]]))
        - ASPECT_DEFINITIONS[m[3]].angle)

TransitsReturned ==
    /\ request.op = "calculate_current_transits"
    /\ response.status = "ok"

\* C6: active_transits is the first min(10, n) of the n matches in
\* generation order: its k-th entry is the match that has exactly k-1
\* matches before it, so entries are neither reordered nor chosen by orb,
\* and there are never more than 10.
C6_FirstTenInGenerationOrder ==
    TransitsReturned =>
        LET got == response.snapshot.active_transits
            n   == Cardinality(TransitMatches)
        IN  /\ Len(got) <= 10
            /\ Len(got) = IF n < 10 THEN n ELSE 10
            /\ \A k \in 1..Len(got) :
                 \E m \in TransitMatches :
                    /\ Cardinality({ x \in TransitMatches : GeneratedBefore(x, m) }) = k - 1
                    /\ got[k].planet = transit_planet_names[m[1]]
                    /\ got[k].natal_planet = request.birth_chart.names[m[2]]
                    /\ got[k].type = ASPECT_DEFINITIONS[m[3]].type

\* C6 witness: more than 10 matches, of which one that was cut off is
\* closer to exact than one that was kept
C6_Witness ==
    /\ TransitsReturned
    /\ Cardinality(TransitMatches) > 10
    /\ Len(response.snapshot.active_transits) = 10
    /\ \E m \in TransitMatches :
          /\ Cardinality({ x \in TransitMatches : GeneratedBefore(x, m) }) >= 10
          /\ \E k \in 1..10 :
                response.snapshot.active_transits[k].orb > Round2(TransitDeviation(m))

\* C7: get_zodiac_sign(L) = get_zodiac_sign(L + 360*k) for every longitude
\* L and every integer k, negative values included.
C7_SignInvariantUnderTurns ==
    request.op = "get_zodiac_sign" =>
        \A k \in (0 - MaxTurns)..MaxTurns :
            get_zodiac_sign(request.longitude + k * 360 * Deg) = response.value

\* C8: get_zodiac_sign(L) is the sign at index floor(N/30) of Aries..Pisces,
\* where N is L normalized into [0,360), for negative L, L in [0,360) and
\* L >= 360 alike.
C8_SignOfNormalizedLongitude ==
    request.op = "get_zodiac_sign" =>
        LET normalized == request.longitude % (360 * Deg)
        IN  response.value = ZODIAC_SIGNS[(normalized \div (30 * Deg)) + 1]

\* C9: in every returned chart every placement's stored degree is at least
\* 0 and less than 30.
C9_DegreeBelowThirty ==
    ChartReturned =>
        \A name \in DOMAIN response.chart.planets :
            /\ 0 <= response.chart.planets[name].degree
            /\ response.chart.planets[name].degree < 30 * Deg

\* C10: in every returned chart every stored absolute_degree, of a placement
\* or of a house cusp, is at least 0 and less than 360.
C10_AbsoluteDegreeBelowFullCircle ==
    ChartReturned =>
        /\ \A name \in DOMAIN response.chart.planets :
              /\ 0 <= response.chart.planets[name].absolute_degree
              /\ response.chart.planets[name].absolute_degree < 360 * Deg
        /\ \A i \in 1..Len(response.chart.houses) :
              /\ 0 <= response.chart.houses[i].absolute_degree
              /\ response.chart.houses[i].absolute_degree < 360 * Deg

\* C11: in every returned chart that has a South Node placement, the South
\* Node's absolute_degree is the North Node's absolute_degree plus 180
\* degrees, reduced modulo 360 (to within 0.01 degree), and the South Node
\* is not retrograde, whatever the speed of the North Node.
C11_SouthNodeOpposite ==
    (ChartReturned /\ "South Node" \in DOMAIN response.chart.planets) =>
        LET north == response.chart.planets["North Node"]
            south == response.chart.planets["South Node"]
        IN  /\ Abs(south.absolute_degree
                     - ((north.absolute_degree + 180 * Deg) % (360 * Deg))) <= Centi
            /\ south.retrograde = FALSE

\* C11 witness: a retrograde North Node at 180 degrees, whose opposite point
\* wraps round to 0 degrees
C11_Witness ==
    /\ ChartReturned
    /\ "South Node" \in DOMAIN response.chart.planets
    /\ response.chart.planets["North Node"].retrograde
    /\ response.chart.planets["North Node"].absolute_degree = 180 * Deg
    /\ response.chart.planets["South Node"].absolute_degree = 0
    /\ ~ response.chart.planets["South Node"].retrograde

\* C12: _assign_house returns a house number from 1 to 12 for every
\* longitude and every list of twelve cusps, and every placement of every
\* returned chart (all lookups successful, some defaulted, or houses fallen
\* back) has a house from 1 to 12.
C12_HouseInRange ==
    /\ request.op = "_assign_house" => response.value \in 1..12
    /\ ChartReturned =>
          \A name \in DOMAIN response.chart.planets :
            response.chart.planets[name].house \in 1..12

\* C12 witness: a chart whose houses swe.houses supplied, with one body in
\* house 12 and a defaulted body left in house 1
C12_Witness ==
    /\ ChartReturned
    /\ ~ provider.houses.raises
    /\ provider.fail # {}
    /\ \E name \in DOMAIN response.chart.planets :
         response.chart.planets[name].house = 12
    /\ \A name \in provider.fail : response.chart.planets[name].house = 1

\* the indices (0-based) at which the test of _assign_house passes
MatchingIndices(longitude, cusps) ==
    { i \in 0..11 :
        LET cur == cusps[i + 1]
            nxt == cusps[((i + 1) % 12) + 1]
        IN  \/ cur < nxt /\ cur <= longitude /\ longitude < nxt
            \/ cur >= nxt /\ (longitude >= cur \/ longitude < nxt) }

\* C20: _assign_house returns i+1 for the smallest index i at which either
\* cur < next and cur <= longitude < next, or cur >= next and
\* (longitude >= cur or longitude < next), also when a later index passes
\* the same test.
C20_SmallestMatchingIndex ==
    request.op = "_assign_house" =>
        LET hits == MatchingIndices(request.longitude, request.cusps)
        IN  hits # {} =>
              /\ response.value - 1 \in hits
              /\ \A i \in hits : response.value - 1 <= i

\* C20 witness: cusps alternating between 10 and 5 degrees asked about a
\* longitude just above 5 degrees: index 0 fails, indices 1, 3, ... pass, and house 2 is returned
C20_Witness ==
    /\ request.op = "_assign_house"
    /\ request.cusps = IllFormedCusps[2]
    /\ request.longitude = 5 * Deg + 1
    /\ MatchingIndices(request.longitude, request.cusps) = { 1, 3, 5, 7, 9, 11 }
    /\ response.value = 2

\* what C13 compares of an aspect list: type, angle and orb of each entry
TypeAngleOrb(aspects) ==
    [ n \in 1..Len(aspects) |->
        [ type |-> aspects[n].type, angle |-> aspects[n].angle,
          orb |-> aspects[n].orb ] ]

\* C13: for two bodies A at a and B at b, _calculate_aspects gives aspects
\* of the same types, with the same angle and the same orb, as it gives for
\* A at b and B at a.
C13_AspectsOrderIndependent ==
    (request.op = "_calculate_aspects" /\ request.planet_names = << "A", "B" >>) =>
        LET a == request.planet_longitudes["A"]
            b == request.planet_longitudes["B"]
            swapped == [ name \in { "A", "B" } |-> IF name = "A" THEN b ELSE a ]
        IN  TypeAngleOrb(response.value)
              = TypeAngleOrb(_calculate_aspects(<< "A", "B" >>, swapped))

\* C13 witness: A at 90 and B at 0 degrees give one square of orb 0, the
\* positions of the test with the two bodies exchanged
C13_Witness ==
    /\ request.op = "_calculate_aspects"
    /\ request.planet_names = << "A", "B" >>
    /\ request.planet_longitudes["A"] = 90 * Deg
    /\ request.planet_longitudes["B"] = 0
    /\ TypeAngleOrb(response.value)
         = << [ type |-> "square", angle |-> 90 * Deg, orb |-> 0 ] >>

\* the lunar cycle as the specification lists it
LunarCycle ==
    << "New Moon", "Waxing Crescent", "First Quarter", "Waxing Gibbous",
       "Full Moon", "Waning Gibbous", "Last Quarter", "Waning Crescent" >>

\* C14: the moon_phase of every snapshot is the label of the 45-degree
\* segment that holds the Moon's longitude minus the Sun's, taken modulo
\* 360 (segment n, from n*45 up to but excluding (n+1)*45, has the n-th
\* label of the cycle), also when the Moon's longitude is below the Sun's;
\* it is always one of the eight labels.
C14_MoonPhaseSegment ==
    TransitsReturned =>
        LET elongation == (provider.moon - provider.sun) % (360 * Deg)
            moon_phase == response.snapshot.moon_phase
        IN  /\ \E n \in 1..8 : moon_phase = LunarCycle[n]
            /\ \A n \in 0..7 :
                 (n * 45 * Deg <= elongation /\ elongation < (n + 1) * 45 * Deg)
                   => moon_phase = LunarCycle[n + 1]

\* C14 witness: the Moon one tick behind the Sun, so that its longitude is
\* the smaller one and the phase is the last of the cycle
C14_Witness ==
    /\ TransitsReturned
    /\ provider.moon < provider.sun
    /\ provider.sun - provider.moon = 1
    /\ response.snapshot.moon_phase = "Waning Crescent"

\* the fields of a date or time argument are exactly n numbers
ExactlyNumeric(fields, n) ==
    /\ Len(fields) = n
    /\ \A i \in 1..Len(fields) : fields[i] # NonNumeric

\* C16: calculate_birth_chart raises ValueError, and returns no chart,
\* whenever birth_date is not exactly three numeric fields or birth_time is
\* not exactly two numeric fields: a non-numeric field, too few fields, or
\* too many.
C16_MalformedInputRaises ==
    (/\ request.op = "calculate_birth_chart"
     /\ \/ ~ ExactlyNumeric(request.birth_date, 3)
        \/ ~ ExactlyNumeric(request.birth_time, 2))
    => response.status = "ValueError"

\* C17: calculate_current_transits takes an optional reference time: a call
\* without one returns a snapshot dated with the current time, and a call
\* with one (the daily-briefing route passes its target_date) returns a
\* snapshot, not an error, dated with the reference time.
C17_ReferenceTimeAccepted ==
    /\ TransitsReturned => response.snapshot.date = request.now
    /\ (request.op = "get_daily_briefing" /\ "target_date" \in DOMAIN request) =>
          /\ response.status = "ok"
          /\ response.snapshot.date = request.target_date

\* the birth place of the chart request being served
RequestPlace ==
    CHOOSE k \in 1..NumCuspSets :
      << Latitude(k), Longitude(k) >> = << request.lat, request.lon >>

\* the birth places other than that one
OtherPlaces == (1..NumCuspSets) \ { RequestPlace }

\* the place after it, the places taken round in a cycle
NextPlace == (RequestPlace % NumCuspSets) + 1

\* the chart of the same date and time at birth place k
ChartAtPlace(k) == BuildChart([ provider EXCEPT !.houses = HousesAt(k, 0) ])

\* sign, degree, absolute_degree and retrograde of every body, and the
\* aspects, are those of the chart other
SameSky(chart, other) ==
    /\ DOMAIN chart.planets = DOMAIN other.planets
    /\ \A name \in DOMAIN chart.planets :
         /\ chart.planets[name].sign = other.planets[name].sign
         /\ chart.planets[name].degree = other.planets[name].degree
         /\ chart.planets[name].absolute_degree = other.planets[name].absolute_degree
         /\ chart.planets[name].retrograde = other.planets[name].retrograde
    /\ chart.aspects = other.aspects

----------------------------------------------------------------------------
(* Concurrent calls.  A route hands calculate_birth_chart or               *)
(* calculate_current_transits to a worker thread (routes/astrology.py,     *)
(* asyncio.to_thread); the thread runs the function statement by           *)
(* statement, and the threads of two requests interleave.  A step of the   *)
(* model runs one thread up to its next call of the provider, or to the    *)
(* provider's answer.  The provider's answers to a call are those of the   *)
(* call's prov: they do not depend on what other threads ask.              *)

\* the calls the two requests make
ConcCalls ==
    << [ kind |-> "chart", birth_date |-> << 1990, 1, 15 >>, birth_time |-> << 14, 30 >>,
         prov |-> ChartProvider(1, {}, HousesAt(1, 0)) ],
       [ kind |-> "chart", birth_date |-> << 1990, 1, 15 >>, birth_time |-> << 14, 30 >>,
         prov |-> ChartProvider(2, { "Sun", "North Node" }, HousesRaise) ],
       [ kind |-> "chart", birth_date |-> << 1990, 1, 15, 7 >>,
         birth_time |-> << 14, 30, 15 >>,
         prov |-> ChartProvider(1, { "Mars" }, HousesAt(2, 2)) ],
       [ kind |-> "chart", birth_date |-> << 1990, 1 >>, birth_time |-> << 14, 30 >>,
         prov |-> ChartProvider(1, {}, HousesAt(1, 0)) ],
       [ kind |-> "transit", birth_chart |-> NatalInputs[2], now |-> 1,
         prov |-> TransitProvider(1, FALSE) ],
       [ kind |-> "transit", birth_chart |-> NatalInputs[4], now |-> 2,
         prov |-> TransitProvider(2, FALSE) ],
       [ kind |-> "transit", birth_chart |-> NatalInputs[2], now |-> 3,
         prov |-> TransitProvider(3, TRUE) ] >>

\* every worker keeping its locals in one and the same place
SharedFrame(w) == 1

\* where worker w keeps the local variables of the call it runs: locals
\* belong to the invocation
Frame(w) == w

\* d[key] = value on a dict held as its keys in insertion order and its map
DictNames(names, map, key) ==
    IF key \in DOMAIN map THEN names ELSE Append(names, key)

DictMap(map, key, value) == (key :> value) @@ map

\* the positions of a thread at which a provider call is in progress
InProvider ==
    { "in_julday", "in_calc_ut", "in_houses", "in_moon", "in_sun", "in_position" }

\* routes/astrology.py line 30: a worker thread is given a chart request
StartBirthChart(w) ==
    /\ threads[w].pc = "idle"
    /\ \E n \in 1..Len(ConcCalls) :
         /\ ConcCalls[n].kind = "chart"
         /\ threads' = [ threads EXCEPT ![w] =
                           [ pc |-> "parse", call |-> ConcCalls[n], i |-> 0,
                             result |-> [ status |-> "none" ] ] ]
    /\ UNCHANGED << frames, tables, request, provider, response, clients, callers >>

\* lines 129-132, and 213-215 when they raise
Parse(w) ==
    /\ threads[w].pc = "parse"
    /\ threads' = [ threads EXCEPT ![w] =
                      IF ParseRaises(@.call.birth_date, @.call.birth_time)
                      THEN [ @ EXCEPT !.pc = "done",
                                      !.result = [ status |-> "ValueError" ] ]
                      ELSE [ @ EXCEPT !.pc = "julday" ] ]
    /\ UNCHANGED << frames, tables, request, provider, response, clients, callers >>

\* lines 134 and 229: swe.julday is entered
BeginJulday(w) ==
    /\ threads[w].pc = "julday"
    /\ threads' = [ threads EXCEPT ![w].pc = "in_julday" ]
    /\ UNCHANGED << frames, tables, request, provider, response, clients, callers >>

\* swe.julday returns; a chart call goes on to lines 137-138
EndJulday(w) ==
    /\ threads[w].pc = "in_julday"
    /\ IF threads[w].call.kind = "chart"
       THEN /\ threads' = [ threads EXCEPT ![w].pc = "lookup", ![w].i = 1 ]
            /\ frames' = [ frames EXCEPT ![Frame(w)] =
                             [ @ EXCEPT !.planets = << >>,
                                        !.longitude_names = << >>,
                                        !.planet_longitudes = << >> ] ]
       ELSE /\ threads' = [ threads EXCEPT ![w].pc = "moon" ]
            /\ UNCHANGED frames
    /\ UNCHANGED << tables, request, provider, response, clients, callers >>

\* lines 140-142: swe.calc_ut is entered for the next body of PLANET_IDS
BeginLookup(w) ==
    /\ threads[w].pc = "lookup"
    /\ threads' = [ threads EXCEPT ![w].pc = "in_calc_ut" ]
    /\ UNCHANGED << frames, tables, request, provider, response, clients, callers >>

\* lines 142-150: swe.calc_ut returns or raises
EndLookup(w) ==
    /\ threads[w].pc = "in_calc_ut"
    /\ LET i    == threads[w].i
           name == tables.PLANET_IDS[i]
           prov == threads[w].call.prov
           fr   == frames[Frame(w)]
           position == _calculate_planet_position(prov.lon[name], prov.speed[name])
       IN  /\ frames' = [ frames EXCEPT ![Frame(w)] =
                            IF name \in prov.fail
                            THEN [ fr EXCEPT !.planets =
                                     DictMap(fr.planets, name, DefaultPlacement) ]
                            ELSE [ fr EXCEPT
                                     !.planets = DictMap(fr.planets, name, position),
                                     !.longitude_names =
                                        DictNames(fr.longitude_names,
                                                  fr.planet_longitudes, name),
                                     !.planet_longitudes =
                                        DictMap(fr.planet_longitudes, name,
                                                position.absolute_degree) ] ]
           /\ threads' = [ threads EXCEPT
                             ![w].pc = IF i = Len(tables.PLANET_IDS)
                                       THEN "south_node" ELSE "lookup",
                             ![w].i = i + 1 ]
    /\ UNCHANGED << tables, request, provider, response, clients, callers >>

\* lines 152-167
SouthNode(w) ==
    /\ threads[w].pc = "south_node"
    /\ LET fr == frames[Frame(w)]
           sn_lon == SouthNodeLon(fr.planet_longitudes["North Node"])
           added ==
             IF "North Node" \in DOMAIN fr.planet_longitudes
             THEN [ fr EXCEPT
                      !.planets =
                         DictMap(fr.planets, "South Node",
                                 [ sign            |-> get_zodiac_sign(sn_lon),
                                   degree          |-> Round2(sn_lon % SignWidth),
                                   absolute_degree |-> Round2(sn_lon),
                                   house           |-> 1,
                                   retrograde      |-> FALSE ]),
                      !.longitude_names =
                         DictNames(fr.longitude_names, fr.planet_longitudes,
                                   "South Node"),
                      !.planet_longitudes =
                         DictMap(fr.planet_longitudes, "South Node", sn_lon) ]
             ELSE fr
       IN  frames' = [ frames EXCEPT ![Frame(w)] =
                         [ added EXCEPT !.houses_data = << >>,
                                        !.ascendant_lon = 0, !.mc_lon = 0 ] ]
    /\ threads' = [ threads EXCEPT ![w].pc = "houses" ]
    /\ UNCHANGED << tables, request, provider, response, clients, callers >>

\* line 169: swe.houses is entered
BeginHouses(w) ==
    /\ threads[w].pc = "houses"
    /\ threads' = [ threads EXCEPT ![w].pc = "in_houses" ]
    /\ UNCHANGED << frames, tables, request, provider, response, clients, callers >>

\* lines 169-194: swe.houses returns or raises.  A body of
\* planet_longitudes that planets does not hold raises KeyError in the
\* assignment loop, which the except clause catches like any other.
EndHouses(w) ==
    /\ threads[w].pc = "in_houses"
    /\ LET prov == threads[w].call.prov
           fr   == frames[Frame(w)]
           names == fr.longitude_names
           missing == { n \in 1..Len(names) : names[n] \notin DOMAIN fr.planets }
           reached == IF missing = {} THEN Len(names)
                      ELSE (CHOOSE n \in missing : \A m \in missing : n <= m) - 1
           assigned ==
             [ name \in DOMAIN fr.planets |->
                 IF \E n \in 1..reached : names[n] = name
                 THEN [ fr.planets[name] EXCEPT
                          !.house = _assign_house(fr.planet_longitudes[name],
                                                  prov.houses.cusps) ]
                 ELSE fr.planets[name] ]
       IN  frames' = [ frames EXCEPT ![Frame(w)] =
             IF prov.houses.raises
             THEN [ fr EXCEPT !.houses_data = FallbackHouses ]
             ELSE IF ~ HousesAssigned(prov)
             THEN [ fr EXCEPT !.ascendant_lon = prov.houses.asc,
                              !.mc_lon = prov.houses.mc,
                              !.houses_data = HousesData(prov) ]
             ELSE [ fr EXCEPT !.ascendant_lon = prov.houses.asc,
                              !.mc_lon = prov.houses.mc,
                              !.planets = assigned,
                              !.houses_data =
                                 IF missing = {} THEN HousesData(prov)
                                 ELSE HousesData(prov) \o FallbackHouses ] ]
    /\ threads' = [ threads EXCEPT ![w].pc = "aspects" ]
    /\ UNCHANGED << tables, request, provider, response, clients, callers >>

\* lines 197-211
Aspects(w) ==
    /\ threads[w].pc = "aspects"
    /\ LET fr == frames[Frame(w)]
       IN  threads' = [ threads EXCEPT
             ![w].pc = "done",
             ![w].result =
                [ status |-> "ok",
                  chart  |-> [ planets   |-> fr.planets,
                               ascendant |-> ZodiacPosition(fr.ascendant_lon),
                               midheaven |-> ZodiacPosition(fr.mc_lon),
                               houses    |-> fr.houses_data,
                               aspects   |-> _calculate_aspects(fr.longitude_names,
                                                                fr.planet_longitudes) ] ] ]
    /\ UNCHANGED << frames, tables, request, provider, response, clients, callers >>

\* routes/astrology.py line 48: a worker thread is given a transit request;
\* line 228 reads the clock
StartCurrentTransits(w) ==
    /\ threads[w].pc = "idle"
    /\ \E n \in 1..Len(ConcCalls) :
         /\ ConcCalls[n].kind = "transit"
         /\ threads' = [ threads EXCEPT ![w] =
                           [ pc |-> "julday", call |-> ConcCalls[n], i |-> 0,
                             result |-> [ status |-> "none" ] ] ]
    /\ UNCHANGED << frames, tables, request, provider, response, clients, callers >>

\* line 232: swe.calc_ut is entered for the Moon
BeginMoon(w) ==
    /\ threads[w].pc = "moon"
    /\ threads' = [ threads EXCEPT ![w].pc = "in_moon" ]
    /\ UNCHANGED << frames, tables, request, provider, response, clients, callers >>

\* lines 232-234; an exception of the provider leaves the function
EndMoon(w) ==
    /\ threads[w].pc = "in_moon"
    /\ LET prov == threads[w].call.prov
       IN  IF prov.raises
           THEN /\ threads' = [ threads EXCEPT ![w].pc = "done",
                                  ![w].result = [ status |-> "error" ] ]
                /\ UNCHANGED frames
           ELSE /\ threads' = [ threads EXCEPT ![w].pc = "sun" ]
                /\ frames' = [ frames EXCEPT ![Frame(w)].moon_lon = prov.moon ]
    /\ UNCHANGED << tables, request, provider, response, clients, callers >>

\* line 237: swe.calc_ut is entered for the Sun
BeginSun(w) ==
    /\ threads[w].pc = "sun"
    /\ threads' = [ threads EXCEPT ![w].pc = "in_sun" ]
    /\ UNCHANGED << frames, tables, request, provider, response, clients, callers >>

\* lines 237-245
EndSun(w) ==
    /\ threads[w].pc = "in_sun"
    /\ frames' = [ frames EXCEPT ![Frame(w)] =
                     [ @ EXCEPT !.sun_lon = threads[w].call.prov.sun,
                                !.position_names = << >>,
                                !.current_positions = << >> ] ]
    /\ threads' = [ threads EXCEPT ![w].pc = "position", ![w].i = 1 ]
    /\ UNCHANGED << tables, request, provider, response, clients, callers >>

\* lines 246-248: swe.calc_ut is entered for the next transit body
BeginPosition(w) ==
    /\ threads[w].pc = "position"
    /\ threads' = [ threads EXCEPT ![w].pc = "in_position" ]
    /\ UNCHANGED << frames, tables, request, provider, response, clients, callers >>

\* lines 248-249
EndPosition(w) ==
    /\ threads[w].pc = "in_position"
    /\ LET i    == threads[w].i
           name == transit_planet_names[i]
           fr   == frames[Frame(w)]
       IN  /\ frames' = [ frames EXCEPT ![Frame(w)] =
                            [ fr EXCEPT
                                !.position_names =
                                   DictNames(fr.position_names,
                                             fr.current_positions, name),
                                !.current_positions =
                                   DictMap(fr.current_positions, name,
                                           threads[w].call.prov.positions[name]) ] ]
           /\ threads' = [ threads EXCEPT
                             ![w].pc = IF i = Len(transit_planet_names)
                                       THEN "match" ELSE "position",
                             ![w].i = i + 1 ]
    /\ UNCHANGED << tables, request, provider, response, clients, callers >>

RECURSIVE TransitsOver(_, _, _, _)
\* lines 255-272: the loop over current_positions.items(), from index i on
TransitsOver(i, position_names, current_positions, natal) ==
    IF i > Len(position_names) THEN << >>
    ELSE TransitsInner(position_names[i], current_positions[position_names[i]],
                       1, natal)
         \o TransitsOver(i + 1, position_names, current_positions, natal)

\* lines 234, 239-241 and 251-279
Match(w) ==
    /\ threads[w].pc = "match"
    /\ LET fr == frames[Frame(w)]
       IN  threads' = [ threads EXCEPT
             ![w].pc = "done",
             ![w].result =
                [ status |-> "ok",
                  snapshot |->
                    [ date            |-> threads[w].call.now,
                      moon_sign       |-> get_zodiac_sign(fr.moon_lon),
                      moon_phase      |-> MoonPhase(fr.moon_lon, fr.sun_lon),
                      active_transits |->
                        FirstTen(TransitsOver(1, fr.position_names,
                                              fr.current_positions,
                                              threads[w].call.birth_chart)) ] ] ]
    /\ UNCHANGED << frames, tables, request, provider, response, clients, callers >>

\* the route takes the result (or the exception) and the call's locals go
Finish(w) ==
    /\ threads[w].pc = "done"
    /\ threads' = [ threads EXCEPT ![w] = IdleThread ]
    /\ frames' = [ frames EXCEPT ![Frame(w)] = EmptyFrame ]
    /\ UNCHANGED << tables, request, provider, response, clients, callers >>

NextConc ==
    \/ \E w \in Workers : StartBirthChart(w)
    \/ \E w \in Workers : Parse(w)
    \/ \E w \in Workers : BeginJulday(w)
    \/ \E w \in Workers : EndJulday(w)
    \/ \E w \in Workers : BeginLookup(w)
    \/ \E w \in Workers : EndLookup(w)
    \/ \E w \in Workers : SouthNode(w)
    \/ \E w \in Workers : BeginHouses(w)
    \/ \E w \in Workers : EndHouses(w)
    \/ \E w \in Workers : Aspects(w)
    \/ \E w \in Workers : StartCurrentTransits(w)
    \/ \E w \in Workers : BeginMoon(w)
    \/ \E w \in Workers : EndMoon(w)
    \/ \E w \in Workers : BeginSun(w)
    \/ \E w \in Workers : EndSun(w)
    \/ \E w \in Workers : BeginPosition(w)
    \/ \E w \in Workers : EndPosition(w)
    \/ \E w \in Workers : Match(w)
    \/ \E w \in Workers : Finish(w)

SpecConc == Init /\ [][NextConc]_vars

\* what a call returns when it runs alone
AloneResult(call) ==
    IF call.kind = "chart"
    THEN calculate_birth_chart(call.birth_date, call.birth_time, call.prov)
    ELSE calculate_current_transits(call.birth_chart, call.now, call.prov)

\* C18: the engine holds no shared mutable state: with the steps of two
\* concurrent calls of calculate_birth_chart or calculate_current_transits
\* interleaved in any order, each call returns exactly the result it
\* returns when it runs alone, and the module-level tables are never
\* written.
C18_ConcurrentCallsIndependent ==
    /\ tables = ModuleTables
    /\ \A w \in Workers :
         threads[w].pc = "done" => threads[w].result = AloneResult(threads[w].call)

\* C18 witness: worker 1 has a chart to return while worker 2 is in the
\* middle of the lookups of another chart, and worker 1's chart is the one
\* it gets alone
C18_Witness ==
    /\ threads[1].pc = "done"
    /\ threads[1].call = ConcCalls[1]
    /\ threads[1].result.status = "ok"
    /\ threads[1].result = AloneResult(ConcCalls[1])
    /\ threads[2].pc = "in_calc_ut"
    /\ threads[2].call = ConcCalls[2]
    /\ threads[2].i = 6

\* C19: calls into the position provider are serialized: in every
\* reachable state at most one provider call (swe.julday, swe.calc_ut,
\* swe.houses) is in progress.
C19_ProviderCallsSerialized ==
    Cardinality({ w \in Workers : threads[w].pc \in InProvider }) <= 1

----------------------------------------------------------------------------
(* Further properties of the sequential calls *)

\* twelve distinct cusps in [0, 360), increasing round the circle with one
\* wrap through 0
WellFormedCusps(cusps) ==
    /\ \A i \in 1..12 : 0 <= cusps[i] /\ cusps[i] < 360 * Deg
    /\ \A i, j \in 1..12 : i # j => cusps[i] # cusps[j]
    /\ Cardinality({ i \in 1..12 : cusps[i] > cusps[(i % 12) + 1] }) = 1

\* C21: for a well-formed cusp set every longitude in [0, 360) passes the
\* house test at exactly one index, and a longitude equal to cusps[i] is
\* given house i+1, the house that starts at that cusp, wherever the wrap
\* through 0 lies.
C21_OneHousePerLongitude ==
    (/\ request.op = "_assign_house"
     /\ WellFormedCusps(request.cusps)
     /\ 0 <= request.longitude /\ request.longitude < 360 * Deg)
    => /\ Cardinality(MatchingIndices(request.longitude, request.cusps)) = 1
       /\ \A i \in 0..11 :
            request.longitude = request.cusps[i + 1] => response.value = i + 1

\* C21 witness: a longitude on the second cusp of a list whose first house
\* spans the 0/360 boundary is given house 2
C21_Witness ==
    /\ request.op = "_assign_house"
    /\ WellFormedCusps(request.cusps)
    /\ request.cusps[1] > request.cusps[2]
    /\ request.longitude = request.cusps[2]
    /\ MatchingIndices(request.longitude, request.cusps) = { 1 }
    /\ response.value = 2

AspectListed(chart, x, y, type) ==
    \E k \in 1..Len(chart.aspects) :
        /\ chart.aspects[k].type = type
        /\ { chart.aspects[k].planet1, chart.aspects[k].planet2 } = { x, y }

\* circular separation of the stored absolute_degree of two placements
PlacementSeparation(chart, x, y) ==
    LET a == chart.planets[x].absolute_degree
        b == chart.planets[y].absolute_degree
        d == IF a >= b THEN a - b ELSE b - a
    IN  IF d > 180 * Deg THEN 360 * Deg - d ELSE d

\* C22: in every returned chart, for every two distinct bodies of
\* chart.planets and every aspect type T, the aspects list has an entry for
\* the pair and T exactly when the circular separation of the two
\* absolute_degree values differs from the angle of T by at most the natal
\* orb of T, pairs with a body at the default placement included.
C22_AspectsCoverAllBodies ==
    ChartReturned =>
        \A x \in DOMAIN response.chart.planets :
            \A y \in DOMAIN response.chart.planets \ { x } :
                LET sep == PlacementSeparation(response.chart, x, y)
                IN  \A t \in 1..Len(ASPECT_DEFINITIONS) :
                        AspectListed(response.chart, x, y, ASPECT_DEFINITIONS[t].type)
                          <=> Abs(sep - ASPECT_DEFINITIONS[t].angle)
                                <= ASPECT_DEFINITIONS[t].orb

\* C23: when swe.houses returns, every body of the returned chart, South
\* Node and bodies whose lookup raised included, has the house that
\* _assign_house gives for its absolute_degree and the twelve returned
\* cusps.
C23_EveryBodyHoused ==
    (ChartReturned /\ ~ provider.houses.raises) =>
        \A name \in DOMAIN response.chart.planets :
            response.chart.planets[name].house =
                _assign_house(response.chart.planets[name].absolute_degree,
                              provider.houses.cusps)

\* C24: in every returned snapshot the transiting planet of every entry is
\* one of Mars, Jupiter, Saturn, Uranus, Neptune, Pluto, and no entry has
\* South Node as its natal planet, whatever natal chart was passed.
C24_TransitBodiesOnly ==
    TransitsReturned =>
        \A k \in 1..Len(response.snapshot.active_transits) :
            /\ response.snapshot.active_transits[k].planet
                 \in { "Mars", "Jupiter", "Saturn", "Uranus", "Neptune", "Pluto" }
            /\ response.snapshot.active_transits[k].natal_planet # "South Node"

\* C24 witness: a natal chart with a South Node that a transit body is
\* within 3 degrees of an aspect to, and with the fast bodies and the North
\* Node placed; the snapshot has entries, none of them for the South Node
C24_Witness ==
    /\ TransitsReturned
    /\ { "Sun", "Moon", "Mercury", "Venus", "North Node", "South Node" }
         \subseteq DOMAIN request.birth_chart.planets
    /\ \E i \in 1..6, t \in 1..5 :
          Abs(Separation(provider.positions[transit_planet_names[i]],
                         request.birth_chart.planets["South Node"].absolute_degree)
              - ASPECT_DEFINITIONS[t].angle) <= 3 * Deg
    /\ Len(response.snapshot.active_transits) > 0
    /\ \E k \in 1..Len(response.snapshot.active_transits) :
          response.snapshot.active_transits[k].natal_planet = "North Node"

\* the five aspect types with their angles, in degrees
TypeAngles ==
    { << "conjunction", 0 >>, << "opposition", 180 >>, << "trine", 120 >>,
      << "square", 90 >>, << "sextile", 60 >> }

\* distance of the circular separation of a transit longitude and a natal
\* absolute_degree from an angle given in degrees
TransitOff(transit_lon, natal_lon, degrees) ==
    LET d   == IF transit_lon >= natal_lon THEN transit_lon - natal_lon
                                           ELSE natal_lon - transit_lon
        sep == IF d > 180 * Deg THEN 360 * Deg - d ELSE d
    IN  IF sep >= degrees * Deg THEN sep - degrees * Deg ELSE degrees * Deg - sep

\* C25: the list calculate_current_transits builds before the slice has an
\* entry for transit body X, type T and natal body N exactly when N is not
\* South Node and the circular separation of X's longitude and N's
\* absolute_degree is within 3 degrees of the angle of T, the same for all
\* five types; the returned entries are its first ten and have orb <= 3.
C25_TransitIffWithinThree ==
    TransitsReturned =>
        LET natal     == request.birth_chart
            generated == AllTransits(provider.positions, natal)
            listed(X, T, N) ==
                \E k \in 1..Len(generated) :
                    /\ generated[k].planet = X
                    /\ generated[k].type = T
                    /\ generated[k].natal_planet = N
        IN  /\ \A X \in DOMAIN provider.positions :
                 \A N \in DOMAIN natal.planets : \A T \in TypeAngles :
                    listed(X, T[1], N) <=>
                       /\ N # "South Node"
                       /\ TransitOff(provider.positions[X],
                                     NatalLon(natal.planets[N]), T[2]) <= 3 * Deg
            /\ \A k \in 1..Len(generated) :
                 /\ generated[k].planet \in DOMAIN provider.positions
                 /\ generated[k].natal_planet \in DOMAIN natal.planets
                 /\ \E T \in TypeAngles : generated[k].type = T[1]
            /\ \A k \in 1..Len(response.snapshot.active_transits) :
                 /\ k <= Len(generated)
                 /\ response.snapshot.active_transits[k] = generated[k]
                 /\ response.snapshot.active_transits[k].orb <= 3 * Deg

\* C25 witness: a snapshot with an entry exactly 3 degrees from its angle,
\* for a sky in which another pair is more than 3 degrees but within the
\* natal orb from an angle and has no entry
C25_Witness ==
    /\ TransitsReturned
    /\ \E k \in 1..Len(response.snapshot.active_transits) :
          response.snapshot.active_transits[k].orb = 3 * Deg
    /\ \E X \in DOMAIN provider.positions :
         \E N \in DOMAIN request.birth_chart.planets \ { "South Node" } :
           \E t \in 1..5 :
             LET off == TransitOff(provider.positions[X],
                                   NatalLon(request.birth_chart.planets[N]),
                                   ASPECT_DEFINITIONS[t].angle \div Deg)
             IN  /\ off > 3 * Deg
                 /\ off <= ASPECT_DEFINITIONS[t].orb
                 /\ \A k \in 1..Len(response.snapshot.active_transits) :
                      ~ /\ response.snapshot.active_transits[k].planet = X
                        /\ response.snapshot.active_transits[k].natal_planet = N

----------------------------------------------------------------------------
(* get_db and _get_client: callers stepping through the getter *)

\* the test under the lock left out: every caller that took the lock
\* constructs
SecondCheckOmitted(handle) == TRUE

\* database.py line 24, ai_service.py line 28: the test repeated under the
\* lock
SecondCheck(handle) == handle = NoClient

SetCaller(c, pc) == [ callers EXCEPT ![c].pc = pc ]

\* leaving the with block by an exception: the lock is released and the
\* caller gets no value
RaiseOut(c, m, client) ==
    /\ clients' = [ clients EXCEPT ![m] = [ client EXCEPT !.lock = 0 ] ]
    /\ callers' = [ callers EXCEPT ![c] =
                      [ pc |-> "idle", module |-> "none", made |-> NoClient,
                        calls |-> callers[c].calls + 1 ] ]

\* a caller enters get_db() or _get_client()
CallGetter(c) ==
    /\ UNCHANGED << request, provider, response, threads, frames, tables >>
    /\ callers[c].pc = "idle"
    /\ callers[c].calls < MaxCalls
    /\ \E m \in ClientModules :
         callers' = [ callers EXCEPT ![c].pc = "first_check", ![c].module = m ]
    /\ UNCHANGED clients

\* database.py line 22, ai_service.py line 26: if the handle is None
FirstCheck(c) ==
    /\ UNCHANGED << request, provider, response, threads, frames, tables >>
    /\ callers[c].pc = "first_check"
    /\ callers' = SetCaller(c, IF clients[callers[c].module].handle = NoClient
                               THEN "acquire" ELSE "return")
    /\ UNCHANGED clients

\* database.py line 23, ai_service.py line 27: with the lock; waits while
\* another caller holds it
AcquireLock(c) ==
    /\ UNCHANGED << request, provider, response, threads, frames, tables >>
    /\ callers[c].pc = "acquire"
    /\ clients[callers[c].module].lock = 0
    /\ clients' = [ clients EXCEPT ![callers[c].module].lock = c ]
    /\ callers' = SetCaller(c, "second_check")

\* database.py line 24, ai_service.py line 28
CheckUnderLock(c) ==
    /\ UNCHANGED << request, provider, response, threads, frames, tables >>
    /\ callers[c].pc = "second_check"
    /\ callers' = SetCaller(c, IF SecondCheck(clients[callers[c].module].handle)
                               THEN "settings" ELSE "release")
    /\ UNCHANGED clients

\* database.py line 25, ai_service.py lines 29-31: get_settings() is cached,
\* so the key is the same at every call; _get_client raises RuntimeError
\* when it is empty, get_db does not look at it
ReadSettings(c) ==
    /\ UNCHANGED << request, provider, response, threads, frames, tables >>
    /\ callers[c].pc = "settings"
    /\ LET m == callers[c].module
       IN  IF m = "database"
           THEN /\ callers' = SetCaller(c, "construct")
                /\ UNCHANGED clients
           ELSE \E key \in (IF clients[m].key = "unread" THEN { "set", "empty" }
                                                        ELSE { clients[m].key }) :
                  IF key = "empty"
                  THEN RaiseOut(c, m, [ clients[m] EXCEPT !.key = key ])
                  ELSE /\ clients' = [ clients EXCEPT ![m].key = key ]
                       /\ callers' = SetCaller(c, "construct")

\* database.py line 26, ai_service.py line 32, right-hand side: the
\* constructor returns a new client or raises
Construct(c) ==
    /\ UNCHANGED << request, provider, response, threads, frames, tables >>
    /\ callers[c].pc = "construct"
    /\ LET m == callers[c].module
           counted == [ clients[m] EXCEPT !.constructions = @ + 1 ]
       IN  \/ /\ clients' = [ clients EXCEPT ![m] =
                                [ counted EXCEPT !.instances = @ + 1 ] ]
              /\ callers' = [ callers EXCEPT ![c].pc = "assign",
                                             ![c].made = clients[m].instances + 1 ]
           \/ RaiseOut(c, m, counted)

\* database.py line 26, ai_service.py line 32: the global is bound
AssignHandle(c) ==
    /\ UNCHANGED << request, provider, response, threads, frames, tables >>
    /\ callers[c].pc = "assign"
    /\ clients' = [ clients EXCEPT ![callers[c].module].handle = callers[c].made ]
    /\ callers' = SetCaller(c, "release")

\* the end of the with block
ReleaseLock(c) ==
    /\ UNCHANGED << request, provider, response, threads, frames, tables >>
    /\ callers[c].pc = "release"
    /\ clients' = [ clients EXCEPT ![callers[c].module].lock = 0 ]
    /\ callers' = SetCaller(c, "return")

\* database.py line 28, ai_service.py line 33: return the global
ReturnHandle(c) ==
    /\ UNCHANGED << request, provider, response, threads, frames, tables >>
    /\ callers[c].pc = "return"
    /\ clients' = [ clients EXCEPT ![callers[c].module].returned =
                      @ \cup { clients[callers[c].module].handle } ]
    /\ callers' = [ callers EXCEPT ![c] =
                      [ pc |-> "idle", module |-> "none", made |-> NoClient,
                        calls |-> callers[c].calls + 1 ] ]

NextClients ==
    \/ \E c \in Callers : CallGetter(c)
    \/ \E c \in Callers : FirstCheck(c)
    \/ \E c \in Callers : AcquireLock(c)
    \/ \E c \in Callers : CheckUnderLock(c)
    \/ \E c \in Callers : ReadSettings(c)
    \/ \E c \in Callers : Construct(c)
    \/ \E c \in Callers : AssignHandle(c)
    \/ \E c \in Callers : ReleaseLock(c)
    \/ \E c \in Callers : ReturnHandle(c)

SpecClients == Init /\ [][NextClients]_vars

----------------------------------------------------------------------------
(* Further properties of aspects and placements *)

\* the windows of the natal catalog on the separation, in degrees
NatalWindows ==
    { << 0, 8 >>, << 54, 66 >>, << 83, 97 >>, << 112, 128 >>, << 172, 180 >> }

\* C27: for every pair of longitudes in [0,360) _calculate_aspects emits at
\* most one aspect for the pair, the five windows [0,8], [54,66], [83,97],
\* [112,128], [172,180] on the separation being pairwise disjoint and those
\* of the catalog; two bodies 3 degrees apart give exactly one aspect, a
\* conjunction.  Likewise no transit body has two entries for one natal
\* body.
C27_OneAspectPerPair ==
    /\ \A v, w \in NatalWindows : v # w => (v[2] < w[1] \/ w[2] < v[1])
    /\ \A t \in 1..Len(ASPECT_DEFINITIONS) :
          \E w \in NatalWindows :
             /\ w[1] * Deg = IF ASPECT_DEFINITIONS[t].angle >= ASPECT_DEFINITIONS[t].orb
                             THEN ASPECT_DEFINITIONS[t].angle - ASPECT_DEFINITIONS[t].orb
                             ELSE 0
             /\ w[2] * Deg = IF ASPECT_DEFINITIONS[t].angle + ASPECT_DEFINITIONS[t].orb
                                  <= 180 * Deg
                             THEN ASPECT_DEFINITIONS[t].angle + ASPECT_DEFINITIONS[t].orb
                             ELSE 180 * Deg
    /\ request.op = "_calculate_aspects" =>
          /\ \A j, k \in 1..Len(response.value) :
                ( /\ response.value[j].planet1 = response.value[k].planet1
                  /\ response.value[j].planet2 = response.value[k].planet2 )
                   => j = k
          /\ ( /\ request.planet_names = << "A", "B" >>
               /\ request.planet_longitudes["A"] = 100 * Deg
               /\ request.planet_longitudes["B"] = 103 * Deg )
                => /\ Len(response.value) = 1
                   /\ response.value[1].type = "conjunction"
    /\ TransitsReturned =>
          LET generated == AllTransits(provider.positions, request.birth_chart)
          IN  \A j, k \in 1..Len(generated) :
                ( /\ generated[j].planet = generated[k].planet
                  /\ generated[j].natal_planet = generated[k].natal_planet )
                   => j = k

\* C27 witness: three bodies at 0, 120 and 232.5 degrees, every two of
\* them within the trine window; three aspects, one for each pair
C27_Witness ==
    /\ request.op = "_calculate_aspects"
    /\ request.planet_names = << "A", "B", "C" >>
    /\ request.planet_longitudes["A"] = 0
    /\ request.planet_longitudes["B"] = 120 * Deg
    /\ Len(response.value) = 3
    /\ \A k \in 1..3 : response.value[k].type = "trine"
    /\ response.value[3].orb = 7 * Deg + 250

\* C29: whenever the North Node lookup succeeded, the aspects of the
\* returned chart contain an opposition of North Node and South Node with
\* angle 180 and orb 0, wherever in [0,360) the North Node is.
C29_NodesOpposed ==
    (ChartReturned /\ "North Node" \notin provider.fail) =>
        \E k \in 1..Len(response.chart.aspects) :
            /\ response.chart.aspects[k].planet1 = "North Node"
            /\ response.chart.aspects[k].planet2 = "South Node"
            /\ response.chart.aspects[k].type = "opposition"
            /\ response.chart.aspects[k].angle = 180 * Deg
            /\ response.chart.aspects[k].orb = 0

\* C29 witness: the North Node looked up at 359.996 degrees is stored at
\* 360.0 and the South Node at 180.0; the last aspect of the chart is the
\* opposition of the two nodes
C29_Witness ==
    /\ ChartReturned
    /\ provider.fail = { }
    /\ provider.lon["North Node"] = 359 * Deg + 498
    /\ response.chart.planets["North Node"].absolute_degree = 360 * Deg
    /\ response.chart.planets["South Node"].absolute_degree = 180 * Deg
    /\ Len(response.chart.aspects) > 1
    /\ response.chart.aspects[Len(response.chart.aspects)].planet1 = "North Node"
    /\ response.chart.aspects[Len(response.chart.aspects)].planet2 = "South Node"
    /\ response.chart.aspects[Len(response.chart.aspects)].type = "opposition"

\* C30: in every returned chart, every placement built from a lookup that
\* succeeded (the South Node, built from the North Node's, included) has
\* sign = get_zodiac_sign(absolute_degree) and degree = absolute_degree
\* mod 30, for provider longitudes in [0,360) finer than 0.01 degree.
C30_PositionFieldsAgree ==
    ChartReturned =>
        \A name \in DOMAIN response.chart.planets :
            name \notin provider.fail =>
                LET placement == response.chart.planets[name]
                IN  /\ placement.sign =
                         ZODIAC_SIGNS[((placement.absolute_degree \div (30 * Deg)) % 12) + 1]
                    /\ placement.degree = placement.absolute_degree % (30 * Deg)

====
